---------------------------- MODULE Spec2Model ----------------------------
(***************************************************************************)
(* Staged training of the bottleneck regression networks of                *)
(* bottleneck_networks.py: StraightRegression.train, FreezeUnfreeze.train  *)
(* and FreezeUnfreeze.train_full_dataset, with the Keras callbacks         *)
(* (EarlyStopping, ModelCheckpoint), the model files they write, the       *)
(* pruning step and the transplantation of weights into the 25-input model.*)
(*                                                                         *)
(* Abstraction of the dense layers: a kernel is kept as the sequence of    *)
(* its rows (one per input unit), and a row of `units` numbers is          *)
(* collapsed to one integer, so the L2 norm of a row is its absolute       *)
(* value.  The layer record keeps the real `units`.  Python indices are    *)
(* 0-based: ind_genes holds 0-based indices, row i of a kernel is          *)
(* kernel[i + 1], and unfreeze[i] of the code is unfreeze[i + 1] here.     *)
(***************************************************************************)
EXTENDS Integers, Sequences, FiniteSets, TLC

(* ------------------------------ bounds --------------------------------- *)
MaxEpochs == 2
MaxPatience == 1
MaxLoss == 1
MaxCalls == 2
MaxExtraDim == 1
NumGrads == 1
MaxSeed == 1
MaxL1 == 1

(* ------------------------- program constants --------------------------- *)
N_KEEP == 25
UNITS_W1 == 512
UNITS_W2 == 128
UNITS_BOTTLENECK == 2
UNITS_W4 == 128
UNITS_W5 == 512
OUTPUT_DIM == 1
N_CLASSES == 3
N_LAYERS == 6

Layers == 1..N_LAYERS

(* input_dim values handed to the constructor: one below the 25 kept      *)
(* genes, exactly 25, and up to MaxExtraDim more.                          *)
InputDims == (N_KEEP - 1)..(N_KEEP + MaxExtraDim)

Patiences == 0..MaxPatience
Losses == 0..MaxLoss
Grads == 1..NumGrads
Seeds == 0..MaxSeed
L1s == 0..MaxL1
TieOrders == {"low_index_first", "high_index_first"}

(* The unfreeze lists tried: only the output layer trainable, and the      *)
(* decoder trainable.                                                      *)
UnfreezeChoices ==
    { <<FALSE, FALSE, FALSE, FALSE, FALSE, TRUE>>,
      <<FALSE, FALSE, FALSE, TRUE, TRUE, TRUE>> }

AllTrainable == [i \in Layers |-> TRUE]

Abs(v) == IF v < 0 THEN 0 - v ELSE v

(* ------------------------------ layers --------------------------------- *)
(* Fresh (random) kernel initialisation of a Dense layer with n inputs:    *)
(* rows that depend on the seed, around zero for seed 0 and away from it   *)
(* for the other seeds; the bias starts at zero.                           *)
FreshKernel(n, layer, seed) ==
    [r \in 1..n |-> ((r * (seed + 2) + layer + seed) % 5) - 2 + 5 * seed]

(* kernel_regularizer=ElasticNet(l1=..., l2=self.l2) of a first layer and   *)
(* kernel_regularizer=regularizers.l2(self.l2) of the other layers.        *)
ElasticNet(lasso) == [ kind |-> "ElasticNet", l1 |-> lasso ]
Ridge == [ kind |-> "l2", l1 |-> 0 ]

Dense(units, activation, n_in, trainable, name, layer, seed, regularizer) ==
    [ name |-> name, units |-> units, activation |-> activation,
      trainable |-> trainable, kernel_regularizer |-> regularizer,
      kernel |-> FreshKernel(n_in, layer, seed), bias |-> 0 ]

(* compile(): the optimizer and loss are fixed and the set of trainable    *)
(* weights is collected from the layers' trainable flags as they are now.  *)
(* Variant: compile() takes every layer as trainable.                      *)
CompileIgnoringFlags(model, loss, lr) ==
    [ model EXCEPT !.compiled = [ loss |-> loss, lr |-> lr, trainable |-> AllTrainable ] ]

Compile(model, loss, lr) ==
    [ model EXCEPT !.compiled =
        [ loss |-> loss, lr |-> lr,
          trainable |-> [i \in Layers |-> model.layers[i].trainable] ] ]

NotCompiled == [ loss |-> "none", lr |-> "none", trainable |-> AllTrainable ]

(* The six-layer stack shared by the three classes.                        *)
Sequential(n_in, first_name, out_units, out_act, out_name, trainable, seed, lasso) ==
    [ input_dim |-> n_in,
      layers |->
        << Dense(UNITS_W1, "act", n_in, trainable[1], first_name, 1, seed,
                 ElasticNet(lasso)),
           Dense(UNITS_W2, "act", 1, trainable[2], "W2", 2, seed, Ridge),
           Dense(UNITS_BOTTLENECK, "linear", 1, trainable[3], "bottleneck", 3, seed,
                 Ridge),
           Dense(UNITS_W4, "act", 1, trainable[4], "W4", 4, seed, Ridge),
           Dense(UNITS_W5, "act", 1, trainable[5], "W5", 5, seed, Ridge),
           Dense(out_units, out_act, 1, trainable[6], out_name, 6, seed, Ridge) >>,
      compiled |-> NotCompiled ]

(* load_weights(file, by_name=True): a layer takes the kernel and bias of  *)
(* the layer of the file that has its name; a layer with no namesake in    *)
(* the file keeps what it has.                                             *)
HasLayer(file, name) == \E j \in Layers : file.layers[j].name = name

LayerNamed(file, name) ==
    file.layers[CHOOSE j \in Layers : file.layers[j].name = name]

(* Variant: by_name=False, the layers are matched by position.             *)
LoadWeightsByPosition(model, file) ==
    [ model EXCEPT !.layers =
        [ i \in Layers |->
            [ model.layers[i] EXCEPT !.kernel = file.layers[i].kernel,
                                     !.bias = file.layers[i].bias ] ] ]

LoadWeightsByName(model, file) ==
    [ model EXCEPT !.layers =
        [ i \in Layers |->
            IF HasLayer(file, model.layers[i].name)
              THEN [ model.layers[i] EXCEPT
                       !.kernel = LayerNamed(file, model.layers[i].name).kernel,
                       !.bias = LayerNamed(file, model.layers[i].name).bias ]
              ELSE model.layers[i] ] ]

(* One epoch of fit(): every layer that was trainable when the model was   *)
(* compiled moves along the gradient g, the others keep their weights.     *)
GradStep(g, layer, r) == ((g + layer + r) % 3) - 1

TrainLayer(l, layer, g) ==
    [ l EXCEPT !.kernel = [r \in 1..Len(l.kernel) |-> l.kernel[r] + GradStep(g, layer, r)],
               !.bias = l.bias + g ]

TrainEpoch(model, g) ==
    [ model EXCEPT !.layers =
        [ i \in Layers |->
            IF model.compiled.trainable[i]
              THEN TrainLayer(model.layers[i], i, g)
              ELSE model.layers[i] ] ]

(* The weights of a layer and of a model, as get_weights() lists them.     *)
LayerWeights(l) == << l.kernel, l.bias >>

GetWeights(model) == [i \in Layers |-> LayerWeights(model.layers[i])]

(* ClassificationPreTrain: the architecture of its constructor and the     *)
(* checkpoint its train() leaves in Classification_weights_*.h5 (the       *)
(* weights after cseed + 1 epochs of classification training).             *)
ClassificationModel(n_in, seed, lasso) ==
    Compile(Sequential(n_in, "W1", N_CLASSES, "softmax", "W6_class", AllTrainable,
                       seed + 1, lasso),
            "categorical_crossentropy", "lr")

ClassificationCheckpoint(n_in, cseed, lasso) ==
    IF cseed = 0
      THEN TrainEpoch(ClassificationModel(n_in, cseed, lasso), 2)
      ELSE TrainEpoch(TrainEpoch(ClassificationModel(n_in, cseed, lasso), 1), 2)

(* StraightRegression.__init__                                             *)
StraightRegression(n_in, pre, file, seed, lasso) ==
    LET fresh == Sequential(n_in, "W1", OUTPUT_DIM, "linear", "W6_regr", AllTrainable,
                            seed, lasso)
        loaded == IF pre THEN LoadWeightsByName(fresh, file) ELSE fresh
    IN  Compile(loaded, "mean_squared_error", "lr")

(* FreezeUnfreeze.__init__                                                 *)
FreezeUnfreeze(n_in, unfrz, pre, file, seed, lasso) ==
    LET fresh == Sequential(n_in, "W1", OUTPUT_DIM, "linear", "W6_regr", unfrz, seed,
                            lasso)
        loaded == IF pre THEN LoadWeightsByName(fresh, file) ELSE fresh
    IN  Compile(loaded, "mean_squared_error", "lr")

(* ------------------------------ pruning -------------------------------- *)
(* np.linalg.norm(weight, ord=2, axis=1): one norm per kernel row.         *)
RowNorms(weight) == [r \in 1..Len(weight) |-> Abs(weight[r])]

(* np.argsort(norms): the 0-based row indices in ascending order of norm.  *)
(* The default sort is not stable, so rows of equal norm come in either    *)
(* index order (tie).                                                      *)
SortsBefore(norms, tie, j, i) ==
    \/ norms[j + 1] < norms[i + 1]
    \/ /\ norms[j + 1] = norms[i + 1]
       /\ IF tie = "low_index_first" THEN j < i ELSE j > i

RECURSIVE ArgSortFirst(_, _, _)
ArgSortFirst(norms, tie, n) ==
    IF n = 0 THEN << >>
    ELSE LET s == ArgSortFirst(norms, tie, n - 1)
             k == Cardinality({q \in 1..Len(s) : SortsBefore(norms, tie, s[q], n - 1)})
         IN  SubSeq(s, 1, k) \o << n - 1 >> \o SubSeq(s, k + 1, Len(s))

ArgSort(norms, tie) == ArgSortFirst(norms, tie, Len(norms))

(* s[-n:] of Python: the last n elements, or all of s when it is shorter.  *)
(* Variant: s[:n], the first n elements.                                   *)
FirstN(s, n) ==
    IF Len(s) <= n THEN s ELSE SubSeq(s, 1, n)

LastN(s, n) ==
    IF Len(s) <= n THEN s ELSE SubSeq(s, Len(s) - n + 1, Len(s))

(* ind_genes = np.argsort(np.linalg.norm(weight, ord=2, axis=1))[-25:]     *)
IndGenes(weight, tie) == LastN(ArgSort(RowNorms(weight), tie), N_KEEP)

(* weight[ind_genes, :] and x[:, ind_genes]: fancy indexing by 0-based     *)
(* indices, in the order of ind_genes.                                     *)
(* Variant: the first rows are taken, whatever the indices say.            *)
TakeFirst(s, ind) == [j \in 1..Len(ind) |-> s[j]]

Take(s, ind) == [j \in 1..Len(ind) |-> s[ind[j] + 1]]

(* x_train[:, ind_genes] and x_test[:, ind_genes] handed to the fit() of   *)
(* the pruned model.                                                       *)
(* Variant: the first 25 columns are handed over, x[:, :25].               *)
SliceFirstColumns(x, ind) == TakeFirst(x, ind)

SliceColumns(x, ind) == Take(x, ind)

(* The rebuilt 25-input architecture of the pruning step, before any       *)
(* weight is loaded into it; its first layer has ElasticNet(l1=0, ...).    *)
(* Variant: the rebuilt first layer is named W1, as in the constructor.    *)
PrunedArchitectureNamedW1(seed) ==
    Sequential(N_KEEP, "W1", OUTPUT_DIM, "linear", "W6_regr", AllTrainable, seed, 0)

PrunedArchitecture(seed) ==
    Sequential(N_KEEP, "W1_25", OUTPUT_DIM, "linear", "W6_regr", AllTrainable, seed, 0)

(* get_layer('W1_25').set_weights([kernel, bias])                          *)
SetFirstLayerWeights(model, kernel, bias) ==
    [ model EXCEPT !.layers[1].kernel = kernel, !.layers[1].bias = bias ]

(* The pruning step on the model file `last`: select the genes, rebuild,   *)
(* load the other layers by name, transplant the selected rows.  It ends   *)
(* with a TypeError when geneNames is None (geneNames[ind_genes]) and with *)
(* a ValueError when set_weights is handed a kernel that has not 25 rows.  *)
PruneStep(current, last, tie, gene_names, seed) ==
    LET weight == last.layers[1].kernel
        bias == last.layers[1].bias
        ind == IndGenes(weight, tie)
        rebuilt == LoadWeightsByName(PrunedArchitecture(seed), last)
    IN  IF ~gene_names
          THEN [ status |-> "TypeError", ind_genes |-> ind, m |-> current ]
        ELSE IF Len(ind) # N_KEEP
          THEN [ status |-> "ValueError", ind_genes |-> ind, m |-> rebuilt ]
        ELSE [ status |-> "ok", ind_genes |-> ind,
               m |-> Compile(SetFirstLayerWeights(rebuilt, Take(weight, ind), bias),
                             "mse", "lr/2") ]

(* ------------------------------ scoring -------------------------------- *)
(* The data sets: one sample per set, as wide as the model's input.        *)
XTrain(n) == [i \in 1..n |-> i % 3]
XTest(n) == [i \in 1..n |-> (2 * i + 1) % 3]

RECURSIVE Dot(_, _, _)
Dot(x, kernel, n) ==
    IF n = 0 THEN 0 ELSE x[n] * kernel[n] + Dot(x, kernel, n - 1)

(* model.predict(x): the first layer's pre-activation is computed; what    *)
(* the later layers make of it is a function of it and of their weights.   *)
Predict(model, x) ==
    [ pre1 |-> Dot(x, model.layers[1].kernel, Len(x)) + model.layers[1].bias,
      rest |-> [i \in 2..N_LAYERS |-> LayerWeights(model.layers[i])] ]

(* 1 - np.sum((y - model.predict(x))**2) / np.sum(y**2)                    *)
R2Of(model, x, y) == [ y |-> y, pred |-> Predict(model, x) ]

(* ----------------------------- callbacks ------------------------------- *)
(* mode='min': np.less(current, best), best starting at np.Inf (<< >>).    *)
MonitorOp(current, best) == best = << >> \/ current < best[1]

EarlyStopping(patience) ==
    [ patience |-> patience, wait |-> 0, best |-> << >>, stopped |-> FALSE ]

EarlyStoppingOnEpochEnd(e, current) ==
    IF MonitorOp(current, e.best)
      THEN [ e EXCEPT !.best = <<current>>, !.wait = 0 ]
      ELSE [ e EXCEPT !.wait = e.wait + 1,
                      !.stopped = (e.wait + 1 >= e.patience) ]

ModelCheckpoint(filepath) == [ filepath |-> filepath, best |-> << >> ]

(* Variant: save_best_only=False, the file is rewritten after every epoch.  *)
ModelCheckpointSavesEveryEpoch(c, current) == current >= 0

ModelCheckpointSaves(c, current) == MonitorOp(current, c.best)

ModelCheckpointOnEpochEnd(c, current) ==
    IF ModelCheckpointSaves(c, current) THEN [ c EXCEPT !.best = <<current>> ] ELSE c

(* np.array(H.history[key]): one entry per epoch the fit ran.              *)
(* Variant: only the value of the last epoch is kept, H.history[key][-1:]. *)
HistoryLastEpoch(h, key) ==
    [ e \in 1..1 |-> [ key |-> key, stage |-> h[Len(h)].stage, epoch |-> h[Len(h)].epoch ] ]

History(h, key) ==
    [ e \in 1..Len(h) |-> [ key |-> key, stage |-> h[e].stage, epoch |-> h[e].epoch ] ]

(* ------------------------------- files --------------------------------- *)
SRCheckpoint(pre) ==
    IF ~pre THEN "StraightRegression_weights" ELSE "PreTrRegression_weights"
SRLast == "Regression_last_weights"
SRPruneCheckpoint(pre) ==
    IF ~pre THEN "StraightRegression_weights_after_pruning"
            ELSE "PreTrRegression_weights_after_pruning"
FUBeforeCheckpoint(pre) ==
    IF ~pre THEN "FreezeUnfreeze_weights_before_unfreezing"
            ELSE "PreTrFreezeUnfreeze_weights_before_unfreezing"
FUAfterCheckpoint(pre) ==
    IF ~pre THEN "FreezeUnfreeze_weights_after_unfreezing"
            ELSE "PreTrFreezeUnfreeze_weights_after_unfreezing"
FULast == "FreezeUnfreeze_last_weights"
FUPruneCheckpoint(pre) ==
    IF ~pre THEN "FreezeUnfreeze_weights_after_unfreezing_and_pruning"
            ELSE "PreTrFreezeUnfreeze_weights_after_unfreezing_and_pruning"
FullBefore == "FreezeUnfreeze_before_unfreezing_full_dataset"
FullAfter == "FreezeUnfreeze_after_unfreezing_full_dataset"
FullAfterPruning == "FreezeUnfreeze_after_unfreezing_ap_full_dataset"
ClassificationFile == "Classification_weights"

FileNames ==
    { SRCheckpoint(FALSE), SRCheckpoint(TRUE), SRLast,
      SRPruneCheckpoint(FALSE), SRPruneCheckpoint(TRUE),
      FUBeforeCheckpoint(FALSE), FUBeforeCheckpoint(TRUE),
      FUAfterCheckpoint(FALSE), FUAfterCheckpoint(TRUE), FULast,
      FUPruneCheckpoint(FALSE), FUPruneCheckpoint(TRUE),
      FullBefore, FullAfter, FullAfterPruning, ClassificationFile }

NoFile == [ input_dim |-> 0, layers |-> << >>, compiled |-> NotCompiled ]

(* ------------------------------- state --------------------------------- *)
VARIABLES
    cls,                 \* "StraightRegression" or "FreezeUnfreeze"
    pre_trained_weights, \* self.pre_trained_weights
    input_dim,           \* self.input_dim
    unfreeze,            \* self.unfreeze (all TRUE for StraightRegression)
    seed,                \* the random initialisation of this run
    l1,                  \* self.l1, the lasso penalty
    m,                   \* self.m
    files,               \* KerasSavedModels/: file name -> saved model
    ncalls,              \* calls made on the object so far
    budget,              \* calls the run makes at most, and epochs= at most
    pc,                  \* "idle", "fit", "done", "error"
    method,              \* the method being executed
    args,                \* its arguments
    x_dim,               \* number of columns of x_train / x_test
    stage,               \* "freeze", "unfreeze", "prune"
    fit_epochs,          \* epochs= of the running fit()
    validated,           \* the running fit() has validation data and callbacks
    es,                  \* the EarlyStopping callback
    mc,                  \* the ModelCheckpoint callback
    stop_training,       \* self.m.stop_training
    hist,                \* the History of the running fit(): one log per epoch
    fit_x,               \* the inputs handed to the running fit()
    train_loss,          \* train_loss_straight_regr / train_loss_freeze_unfreeze
    val_loss,            \* val_loss_straight_regr / val_loss_freeze_unfreeze
    r2,                  \* the r2_* locals computed so far
    ind_genes,           \* ind_genes
    ret,                 \* what the last call returned
    error,               \* the exception that ended the last call
    ran,                 \* history: epochs run by each finished stage of the call
    stopped,             \* history: did early stopping end that stage
    epoch_models,        \* history: self.m after each epoch of the running fit()
    stage_best           \* history: best-epoch model of each finished stage

objvars == << cls, pre_trained_weights, input_dim, unfreeze, seed, l1, budget >>
vars == << cls, pre_trained_weights, input_dim, unfreeze, seed, l1, m, files, ncalls, budget,
           pc, method, args, x_dim, stage, fit_epochs, validated, es, mc,
           stop_training, hist, fit_x, train_loss, val_loss, r2, ind_genes, ret, error,
           ran, stopped, epoch_models, stage_best >>

Unset == [ kind |-> "unset", value |-> << >> ]
None == [ kind |-> "None", value |-> << >> ]
Tuple(t) == [ kind |-> "tuple", value |-> t ]
Array(a) == [ kind |-> "array", value |-> a ]

NoArgs == [ epochs |-> 0, patience |-> 0, prune |-> FALSE, geneNames |-> FALSE ]
NoCallback == EarlyStopping(0)
NoCheckpoint == ModelCheckpoint("")

(* The inputs of a fit(): x_train, and the x_test of validation_data when  *)
(* there is one.                                                           *)
Inputs(x_train, x_test) == [ x_train |-> x_train, x_test |-> x_test ]
NoInputs == Inputs(<< >>, << >>)

(* Construction: the pre-training checkpoint, when one is used, is already *)
(* on disk; the regression object has just been built from it.             *)
Constructed ==
    /\ cls \in {"StraightRegression", "FreezeUnfreeze"}
    /\ pre_trained_weights \in BOOLEAN
    /\ input_dim \in InputDims
    /\ unfreeze \in (IF cls = "FreezeUnfreeze" THEN UnfreezeChoices ELSE {AllTrainable})
    /\ seed \in Seeds
    /\ l1 \in L1s
    /\ \E cseed \in (IF pre_trained_weights THEN Seeds ELSE {0}) :
         files = [ f \in FileNames |->
                     IF f = ClassificationFile /\ pre_trained_weights
                       THEN ClassificationCheckpoint(input_dim, cseed, l1)
                       ELSE NoFile ]
    /\ m = IF cls = "StraightRegression"
             THEN StraightRegression(input_dim, pre_trained_weights,
                                     files[ClassificationFile], seed, l1)
             ELSE FreezeUnfreeze(input_dim, unfreeze, pre_trained_weights,
                                 files[ClassificationFile], seed, l1)
    /\ ncalls = 0
    /\ pc = "idle"
    /\ method = "none"
    /\ args = NoArgs
    /\ x_dim = input_dim
    /\ stage = "none"
    /\ fit_epochs = 0
    /\ validated = FALSE
    /\ es = NoCallback
    /\ mc = NoCheckpoint
    /\ stop_training = FALSE
    /\ hist = << >>
    /\ fit_x = NoInputs
    /\ train_loss = << >>
    /\ val_loss = << >>
    /\ r2 = << >>
    /\ ind_genes = << >>
    /\ ret = Unset
    /\ error = "none"
    /\ ran = << >>
    /\ stopped = << >>
    /\ epoch_models = << >>
    /\ stage_best = << >>

(* One call with up to MaxEpochs epochs per stage unit.                    *)
Init == Constructed /\ budget = [ calls |-> 1, epochs |-> MaxEpochs ]

(* Up to MaxCalls calls on the same object, each with epochs=1.            *)
InitRepeated == Constructed /\ budget = [ calls |-> MaxCalls, epochs |-> 1 ]

(* ------------------------------ fit() ---------------------------------- *)
(* The call of fit(): the epoch loop starts with an empty history.         *)
StartFit(st, n, val, e, c, xs) ==
    /\ pc' = "fit"
    /\ fit_x' = xs
    /\ stage' = st
    /\ fit_epochs' = n
    /\ validated' = val
    /\ es' = e
    /\ mc' = c
    /\ stop_training' = FALSE
    /\ hist' = << >>
    /\ epoch_models' = << >>

(* fit() has returned: all its epochs ran, or a callback stopped it.       *)
FitReturned == pc = "fit" /\ (Len(hist) = fit_epochs \/ stop_training)

(* The call ends (return or exception) and its locals are gone.            *)
EndCall(p, r, err) ==
    /\ pc' = p
    /\ ret' = r
    /\ error' = err
    /\ stage' = "none"
    /\ fit_epochs' = 0
    /\ validated' = FALSE
    /\ es' = NoCallback
    /\ mc' = NoCheckpoint
    /\ hist' = << >>
    /\ fit_x' = NoInputs
    /\ epoch_models' = << >>

Return(r) == EndCall("done", r, "none") /\ UNCHANGED stop_training

(* The best epoch of the fit that has just returned: lowest monitored      *)
(* value, the earliest such epoch on ties.                                 *)
BestEpoch(h) ==
    CHOOSE e \in 1..Len(h) :
        \A e2 \in 1..Len(h) :
            \/ h[e].val[1] < h[e2].val[1]
            \/ (h[e].val[1] = h[e2].val[1] /\ e <= e2)

StageDone ==
    /\ ran' = Append(ran, Len(hist))
    /\ stopped' = Append(stopped, stop_training)
    /\ stage_best' = IF validated
                       THEN Append(stage_best, epoch_models[BestEpoch(hist)])
                       ELSE stage_best

(* One epoch of a fit() with validation data and callbacks [es, mc]: the   *)
(* weights are updated, the validation MSE v is measured, EarlyStopping    *)
(* and then ModelCheckpoint see the epoch end.                             *)
FitEpoch ==
    /\ pc = "fit"
    /\ validated
    /\ Len(hist) < fit_epochs
    /\ ~stop_training
    /\ \E g \in Grads, v \in Losses :
         LET m1 == TrainEpoch(m, g)
             es1 == EarlyStoppingOnEpochEnd(es, v)
         IN  /\ m' = m1
             /\ hist' = Append(hist, [ stage |-> stage, epoch |-> Len(hist) + 1,
                                       val |-> <<v>> ])
             /\ es' = es1
             /\ stop_training' = es1.stopped
             /\ mc' = ModelCheckpointOnEpochEnd(mc, v)
             /\ files' = IF ModelCheckpointSaves(mc, v)
                           THEN [ files EXCEPT ![mc.filepath] = m1 ]
                           ELSE files
             /\ epoch_models' = Append(epoch_models, m1)
    /\ UNCHANGED << objvars, ncalls, pc, method, args, x_dim, stage, fit_epochs,
                    validated, fit_x, train_loss, val_loss, r2, ind_genes, ret,
                    error, ran, stopped, stage_best >>

(* One epoch of a fit() without validation data and without callbacks.     *)
FitEpochFullDataset ==
    /\ pc = "fit"
    /\ ~validated
    /\ Len(hist) < fit_epochs
    /\ \E g \in Grads :
         LET m1 == TrainEpoch(m, g)
         IN  /\ m' = m1
             /\ hist' = Append(hist, [ stage |-> stage, epoch |-> Len(hist) + 1,
                                       val |-> << >> ])
             /\ epoch_models' = Append(epoch_models, m1)
    /\ UNCHANGED << objvars, files, ncalls, pc, method, args, x_dim, stage,
                    fit_epochs, validated, es, mc, stop_training, fit_x, train_loss,
                    val_loss, r2, ind_genes, ret, error, ran, stopped, stage_best >>

(* ----------------------- the training schedules ------------------------ *)
(* epochs= and patience= of the stages.                                    *)
(* Variant: the first fit() runs for epochs also when pruning.              *)
SRFitEpochsNotDoubled(prune, epochs) == epochs

SRFitEpochs(prune, epochs) == IF ~prune THEN epochs ELSE 2 * epochs
SRPatience(prune, patience) == IF ~prune THEN patience ELSE 2 * patience
(* Variant: the frozen and unfrozen fits run for 2*epochs each.            *)
FUFitEpochsDoubled(epochs) == 2 * epochs

FUFitEpochs(epochs) == epochs

(* Variant: the pruned model is retrained for epochs only.                 *)
PruneFitEpochsNotDoubled(epochs) == epochs

PruneFitEpochs(epochs) == 2 * epochs
PrunePatience(patience) == 2 * patience

(* A call may be made whenever no call is running.  x_train and x_test are *)
(* as wide as the input of self.m; geneNames is read only when pruning, so *)
(* it is left out (TRUE) of the calls that do not prune.                   *)
CanCall == pc \in {"idle", "done", "error"} /\ ncalls < budget.calls

BeginCall(name, a) ==
    /\ method' = name
    /\ args' = a
    /\ x_dim' = m.input_dim
    /\ ncalls' = ncalls + 1
    /\ train_loss' = << >>
    /\ val_loss' = << >>
    /\ r2' = << >>
    /\ ind_genes' = << >>
    /\ ran' = << >>
    /\ stopped' = << >>
    /\ stage_best' = << >>
    /\ UNCHANGED << objvars, m, files >>

CallArgs ==
    { a \in [ epochs : 1..budget.epochs, patience : Patiences, prune : BOOLEAN,
              geneNames : BOOLEAN ] : ~a.prune => a.geneNames }

(* The first fit() of a call.  A model that was rebuilt by a pruning step   *)
(* that raised before its compile() cannot be fitted: fit() raises.        *)
FirstFit(st, n, val, e, c, xs) ==
    IF m.compiled.loss = "none"
      THEN EndCall("error", Unset, "RuntimeError") /\ UNCHANGED stop_training
      ELSE StartFit(st, n, val, e, c, xs) /\ ret' = Unset /\ error' = "none"

(* The pruning step of the three methods, after the model was saved to the *)
(* file `last`: either the retraining fit() starts, or the call ends with  *)
(* the exception of PruneStep.                                             *)
PruneAndRefit(saved, last, val, checkpoint) ==
    \E tie \in TieOrders :
        LET p == PruneStep(m, saved[last], tie, args.geneNames, seed)
        IN  /\ ind_genes' = p.ind_genes
            /\ IF p.status = "ok"
                 THEN /\ m' = p.m
                      /\ files' = IF val THEN saved
                                  ELSE [ saved EXCEPT ![FullAfterPruning] = p.m ]
                      /\ StartFit("prune", PruneFitEpochs(args.epochs), val,
                                  IF val THEN EarlyStopping(PrunePatience(args.patience))
                                         ELSE NoCallback,
                                  IF val THEN ModelCheckpoint(checkpoint)
                                         ELSE NoCheckpoint,
                                  Inputs(SliceColumns(XTrain(x_dim), p.ind_genes),
                                         IF val THEN SliceColumns(XTest(x_dim), p.ind_genes)
                                                ELSE << >>))
                      /\ UNCHANGED << ret, error >>
                 ELSE /\ m' = p.m
                      /\ files' = saved
                      /\ stop_training' = (p.status = "TypeError" /\ stop_training)
                      /\ EndCall("error", Unset, p.status)

(* --------------------- StraightRegression.train ------------------------ *)
SRTrain ==
    /\ cls = "StraightRegression"
    /\ CanCall
    /\ \E a \in CallArgs :
         /\ BeginCall("StraightRegression.train", a)
         /\ FirstFit("initial", SRFitEpochs(a.prune, a.epochs), TRUE,
                     EarlyStopping(SRPatience(a.prune, a.patience)),
                     ModelCheckpoint(SRCheckpoint(pre_trained_weights)),
                     Inputs(XTrain(x_dim'), XTest(x_dim')))

(* From the return of the first fit() to the return of the method, or to   *)
(* the start of the fit() of the pruned model.                             *)
SRAfterFit ==
    /\ method = "StraightRegression.train"
    /\ FitReturned
    /\ stage = "initial"
    /\ LET saved_model == files[SRCheckpoint(pre_trained_weights)]
           r2_train == R2Of(saved_model, XTrain(x_dim), "y_train")
           r2_test == R2Of(saved_model, XTest(x_dim), "y_test")
           saved == [ files EXCEPT ![SRLast] = m ]
       IN  /\ train_loss' = History(hist, "r2_score")
           /\ val_loss' = History(hist, "val_r2_score")
           /\ r2' = ("r2_train" :> r2_train @@ "r2_test" :> r2_test)
           /\ StageDone
           /\ IF ~args.prune
                THEN /\ files' = saved
                     /\ UNCHANGED << m, ind_genes >>
                     /\ Return(Tuple(<< r2_train, r2_test, train_loss', val_loss' >>))
                ELSE PruneAndRefit(saved, SRLast, TRUE,
                                   SRPruneCheckpoint(pre_trained_weights))
    /\ UNCHANGED << objvars, ncalls, method, args, x_dim >>

SRAfterPruneFit ==
    /\ method = "StraightRegression.train"
    /\ FitReturned
    /\ stage = "prune"
    /\ LET saved_model_2 == files[SRPruneCheckpoint(pre_trained_weights)]
           r2_after_pruning_train ==
               R2Of(saved_model_2, Take(XTrain(x_dim), ind_genes), "y_train")
           r2_after_pruning_test ==
               R2Of(saved_model_2, Take(XTest(x_dim), ind_genes), "y_test")
       IN  /\ train_loss' = train_loss \o History(hist, "r2_score")
           /\ val_loss' = val_loss \o History(hist, "val_r2_score")
           /\ r2' = r2 @@ ("r2_after_pruning_train" :> r2_after_pruning_train
                           @@ "r2_after_pruning_test" :> r2_after_pruning_test)
           /\ StageDone
           /\ Return(Tuple(<< r2["r2_train"], r2["r2_test"],
                               r2_after_pruning_train, r2_after_pruning_test,
                               train_loss', val_loss' >>))
    /\ UNCHANGED << objvars, m, files, ncalls, method, args, x_dim, ind_genes >>

(* ------------------------ FreezeUnfreeze.train ------------------------- *)
(* for layer in self.m.layers: layer.trainable = True                      *)
UnfreezeAll(model) ==
    [ model EXCEPT !.layers = [ i \in Layers |-> [ model.layers[i] EXCEPT !.trainable = TRUE ] ] ]

FUTrain ==
    /\ cls = "FreezeUnfreeze"
    /\ CanCall
    /\ \E a \in CallArgs :
         /\ BeginCall("FreezeUnfreeze.train", a)
         /\ FirstFit("freeze", FUFitEpochs(a.epochs), TRUE,
                     EarlyStopping(a.patience),
                     ModelCheckpoint(FUBeforeCheckpoint(pre_trained_weights)),
                     Inputs(XTrain(x_dim'), XTest(x_dim')))

(* From the return of the first fit() to the start of the second.          *)
FUAfterFreezeFit ==
    /\ method = "FreezeUnfreeze.train"
    /\ FitReturned
    /\ stage = "freeze"
    /\ train_loss' = History(hist, "r2_score")
    /\ val_loss' = History(hist, "val_r2_score")
    /\ m' = Compile(UnfreezeAll(m), "mean_squared_error", "lr/2")
    /\ StageDone
    /\ StartFit("unfreeze", FUFitEpochs(args.epochs), TRUE,
                EarlyStopping(args.patience),
                ModelCheckpoint(FUAfterCheckpoint(pre_trained_weights)),
                Inputs(XTrain(x_dim), XTest(x_dim)))
    /\ UNCHANGED << objvars, files, ncalls, method, args, x_dim, r2, ind_genes,
                    ret, error >>

(* From the return of the second fit() to the return of the method, or to  *)
(* the start of the fit() of the pruned model.                             *)
FUAfterUnfreezeFit ==
    /\ method = "FreezeUnfreeze.train"
    /\ FitReturned
    /\ stage = "unfreeze"
    /\ LET saved_model == files[FUBeforeCheckpoint(pre_trained_weights)]
           saved_model_2 == files[FUAfterCheckpoint(pre_trained_weights)]
           r2_before_unfreezing_train == R2Of(saved_model, XTrain(x_dim), "y_train")
           r2_before_unfreezing_test == R2Of(saved_model, XTest(x_dim), "y_test")
           r2_after_unfreezing_train == R2Of(saved_model_2, XTrain(x_dim), "y_train")
           r2_after_unfreezing_test == R2Of(saved_model_2, XTest(x_dim), "y_test")
           saved == [ files EXCEPT ![FULast] = m ]
       IN  /\ train_loss' = train_loss \o History(hist, "r2_score")
           /\ val_loss' = val_loss \o History(hist, "val_r2_score")
           /\ r2' = ("r2_before_unfreezing_train" :> r2_before_unfreezing_train
                     @@ "r2_before_unfreezing_test" :> r2_before_unfreezing_test
                     @@ "r2_after_unfreezing_train" :> r2_after_unfreezing_train
                     @@ "r2_after_unfreezing_test" :> r2_after_unfreezing_test)
           /\ StageDone
           /\ IF ~args.prune
                THEN /\ files' = saved
                     /\ UNCHANGED << m, ind_genes >>
                     /\ Return(Tuple(<< r2_before_unfreezing_train,
                                         r2_before_unfreezing_test,
                                         r2_after_unfreezing_train,
                                         r2_after_unfreezing_test,
                                         train_loss', val_loss' >>))
                ELSE PruneAndRefit(saved, FULast, TRUE,
                                   FUPruneCheckpoint(pre_trained_weights))
    /\ UNCHANGED << objvars, ncalls, method, args, x_dim >>

FUAfterPruneFit ==
    /\ method = "FreezeUnfreeze.train"
    /\ FitReturned
    /\ stage = "prune"
    /\ LET saved_model_3 == files[FUPruneCheckpoint(pre_trained_weights)]
           r2_after_unfreezing_and_pruning_train ==
               R2Of(saved_model_3, Take(XTrain(x_dim), ind_genes), "y_train")
           r2_after_unfreezing_and_pruning_test ==
               R2Of(saved_model_3, Take(XTest(x_dim), ind_genes), "y_test")
       IN  /\ train_loss' = train_loss \o History(hist, "r2_score")
           /\ val_loss' = val_loss \o History(hist, "val_r2_score")
           /\ r2' = r2 @@ ("r2_after_unfreezing_and_pruning_train"
                             :> r2_after_unfreezing_and_pruning_train
                           @@ "r2_after_unfreezing_and_pruning_test"
                             :> r2_after_unfreezing_and_pruning_test)
           /\ StageDone
           /\ Return(Tuple(<< r2["r2_before_unfreezing_train"],
                               r2["r2_before_unfreezing_test"],
                               r2["r2_after_unfreezing_train"],
                               r2["r2_after_unfreezing_test"],
                               r2_after_unfreezing_and_pruning_train,
                               r2_after_unfreezing_and_pruning_test,
                               train_loss', val_loss' >>))
    /\ UNCHANGED << objvars, m, files, ncalls, method, args, x_dim, ind_genes >>

(* ------------------ FreezeUnfreeze.train_full_dataset ------------------ *)
FUTrainFullDataset ==
    /\ cls = "FreezeUnfreeze"
    /\ CanCall
    /\ \E a \in CallArgs :
         /\ BeginCall("FreezeUnfreeze.train_full_dataset", a)
         /\ FirstFit("freeze", FUFitEpochs(a.epochs), FALSE, NoCallback, NoCheckpoint,
                     Inputs(XTrain(x_dim'), << >>))

FullAfterFreezeFit ==
    /\ method = "FreezeUnfreeze.train_full_dataset"
    /\ FitReturned
    /\ stage = "freeze"
    /\ LET unfrozen == Compile(UnfreezeAll(m), "mean_squared_error", "lr/2")
       IN  /\ train_loss' = History(hist, "r2_score")
           /\ m' = unfrozen
           /\ files' = [ files EXCEPT ![FullBefore] = unfrozen ]
    /\ StageDone
    /\ StartFit("unfreeze", FUFitEpochs(args.epochs), FALSE, NoCallback, NoCheckpoint,
                Inputs(XTrain(x_dim), << >>))
    /\ UNCHANGED << objvars, ncalls, method, args, x_dim, val_loss, r2, ind_genes,
                    ret, error >>

(* Without pruning the method ends here, by falling off its end: the only  *)
(* return statement is inside `if prune:`.                                 *)
FullAfterUnfreezeFit ==
    /\ method = "FreezeUnfreeze.train_full_dataset"
    /\ FitReturned
    /\ stage = "unfreeze"
    /\ train_loss' = train_loss \o History(hist, "r2_score")
    /\ StageDone
    /\ LET saved == [ files EXCEPT ![FullAfter] = m ]
       IN  IF ~args.prune
             THEN /\ files' = saved
                  /\ UNCHANGED << m, ind_genes >>
                  /\ Return(None)
             ELSE PruneAndRefit(saved, FullAfter, FALSE, "")
    /\ UNCHANGED << objvars, ncalls, method, args, x_dim, val_loss, r2 >>

FullAfterPruneFit ==
    /\ method = "FreezeUnfreeze.train_full_dataset"
    /\ FitReturned
    /\ stage = "prune"
    /\ train_loss' = train_loss \o History(hist, "r2_score")
    /\ StageDone
    /\ Return(Array(train_loss'))
    /\ UNCHANGED << objvars, m, files, ncalls, method, args, x_dim, val_loss, r2,
                    ind_genes >>

(* ------------------------------------------------------------------------ *)
Next ==
    \/ SRTrain
    \/ FUTrain
    \/ FUTrainFullDataset
    \/ FitEpoch
    \/ FitEpochFullDataset
    \/ SRAfterFit
    \/ SRAfterPruneFit
    \/ FUAfterFreezeFit
    \/ FUAfterUnfreezeFit
    \/ FUAfterPruneFit
    \/ FullAfterFreezeFit
    \/ FullAfterUnfreezeFit
    \/ FullAfterPruneFit

Spec == Init /\ [][Next]_vars

SpecRepeated == InitRepeated /\ [][Next]_vars

(* ======================================================================== *)
(*                               Properties                                 *)
(* ======================================================================== *)
RECURSIVE SumSeq(_)
SumSeq(q) == IF q = << >> THEN 0 ELSE Head(q) + SumSeq(Tail(q))

Validated(meth) == meth \in {"StraightRegression.train", "FreezeUnfreeze.train"}

(* The checkpoint file of the k-th stage of a validated method.            *)
StageCheckpoint(meth, k) ==
    IF meth = "StraightRegression.train"
      THEN IF k = 1 THEN SRCheckpoint(pre_trained_weights)
                    ELSE SRPruneCheckpoint(pre_trained_weights)
      ELSE IF k = 1 THEN FUBeforeCheckpoint(pre_trained_weights)
           ELSE IF k = 2 THEN FUAfterCheckpoint(pre_trained_weights)
           ELSE FUPruneCheckpoint(pre_trained_weights)

(* The inputs the k-th stage's R^2 values are computed on.                 *)
StageInputs(meth, k, x) ==
    IF (meth = "StraightRegression.train" /\ k = 2) \/ k = 3
      THEN Take(x, ind_genes)
      ELSE x

(* The file the pruning step reads the trained model from.                 *)
LastFile(meth) ==
    IF meth = "StraightRegression.train" THEN SRLast
    ELSE IF meth = "FreezeUnfreeze.train" THEN FULast
    ELSE FullAfter

(* C1: in every validated stage the stage's checkpoint file holds, after   *)
(* each epoch and so when the stage ends, the model of the epoch with the  *)
(* lowest validation MSE of the stage so far (the earliest one on ties);   *)
(* and when the method returns, the R^2 values it returns for each stage   *)
(* are those of the stage's checkpoint file, which still holds that best   *)
(* epoch.                                                                  *)
C1_CheckpointHoldsBestEpoch ==
    /\ (pc = "fit" /\ validated /\ Len(hist) >= 1)
         => files[mc.filepath] = epoch_models[BestEpoch(hist)]
    /\ (pc = "done" /\ Validated(method))
         => \A k \in 1..Len(stage_best) :
              /\ files[StageCheckpoint(method, k)] = stage_best[k]
              /\ ret.value[2 * k - 1] =
                   R2Of(stage_best[k], StageInputs(method, k, XTrain(x_dim)), "y_train")
              /\ ret.value[2 * k] =
                   R2Of(stage_best[k], StageInputs(method, k, XTest(x_dim)), "y_test")

(* C1 witness: a call has returned R^2 values of a checkpoint that is not  *)
(* the last epoch's model.                                                 *)
C1_Witness ==
    /\ pc = "done"
    /\ method = "StraightRegression.train"
    /\ ~args.prune
    /\ Len(stage_best) = 1
    /\ files[SRCheckpoint(pre_trained_weights)] # files[SRLast]
    /\ ret.value[1] = R2Of(files[SRCheckpoint(pre_trained_weights)], XTrain(x_dim), "y_train")
    /\ ret.value[1] # R2Of(files[SRLast], XTrain(x_dim), "y_train")

(* C2 as stated: whenever the pruning step of a call that was given        *)
(* geneNames has selected ind_genes, they are exactly 25 distinct indices  *)
(* in 0..input_dim-1 and every selected kernel row has a norm at least     *)
(* that of every row not selected.                                         *)
Selected == {ind_genes[j] : j \in 1..Len(ind_genes)}

MostInfluential(count) ==
    LET norms == RowNorms(files[LastFile(method)].layers[1].kernel)
    IN  /\ Len(ind_genes) = count
        /\ Cardinality(Selected) = count
        /\ Selected \subseteq 0..(input_dim - 1)
        /\ \A i \in Selected :
             \A o \in (0..(input_dim - 1)) \ Selected :
               norms[i + 1] >= norms[o + 1]

C2_TwentyFiveMostInfluential ==
    (ind_genes # << >> /\ args.geneNames) => MostInfluential(N_KEEP)

(* C2 amended: for input_dim >= 25 the selection is as stated; for         *)
(* input_dim < 25 ind_genes holds all input_dim indices, fewer than 25,    *)
(* and the call has ended with an exception.                               *)
C2_MostInfluentialUpTo25 ==
    (ind_genes # << >>) =>
        IF input_dim >= N_KEEP
          THEN MostInfluential(N_KEEP)
          ELSE /\ MostInfluential(input_dim)
               /\ pc = "error"
               /\ error \in {"ValueError", "TypeError"}

(* C2 witness: 25 of more than 25 genes were selected, and a gene that was *)
(* left out has a strictly smaller norm than a selected one that comes     *)
(* after it in the kernel.                                                 *)
C2_Witness ==
    /\ input_dim > N_KEEP
    /\ ind_genes # << >>
    /\ pc = "fit" /\ stage = "prune"
    /\ LET norms == RowNorms(files[LastFile(method)].layers[1].kernel)
       IN  \E o \in (0..(input_dim - 1)) \ Selected :
             \E i \in Selected : o < i /\ norms[o + 1] < norms[i + 1]

(* C3: the step that rebuilds the 25-input model leaves row j of W1_25     *)
(* equal to row ind_genes[j] of the trained first-layer kernel, the bias   *)
(* of W1_25 equal to the trained first-layer bias, and the layers W2,      *)
(* bottleneck, W4, W5, W6_regr with the trained model's weights.           *)
C3_Transplanted ==
    (pc # "fit" \/ stage # "prune") /\ pc' = "fit" /\ stage' = "prune"
      => /\ m'.layers[1].name = "W1_25"
         /\ Len(m'.layers[1].kernel) = N_KEEP
         /\ \A j \in 1..N_KEEP :
              m'.layers[1].kernel[j] = m.layers[1].kernel[ind_genes'[j] + 1]
         /\ m'.layers[1].bias = m.layers[1].bias
         /\ \A i \in 2..N_LAYERS :
              /\ m'.layers[i].name = m.layers[i].name
              /\ LayerWeights(m'.layers[i]) = LayerWeights(m.layers[i])
         /\ << m'.layers[2].name, m'.layers[3].name, m'.layers[4].name,
               m'.layers[5].name, m'.layers[6].name >>
              = << "W2", "bottleneck", "W4", "W5", "W6_regr" >>
         /\ files'[LastFile(method)] = m

C3_WeightTransplantation == [][C3_Transplanted]_vars

(* C3 witness: the pruned model is about to be retrained, and the rows it  *)
(* received are not simply the first 25 rows of the trained kernel.        *)
C3_Witness ==
    /\ pc = "fit"
    /\ stage = "prune"
    /\ Len(hist) = 0
    /\ input_dim > N_KEEP
    /\ \E j \in 1..N_KEEP : ind_genes[j] # j - 1
    /\ m.layers[1].kernel = Take(files[LastFile(method)].layers[1].kernel, ind_genes)
    /\ m.layers[1].kernel # SubSeq(files[LastFile(method)].layers[1].kernel, 1, N_KEEP)

(* C4: on a freshly constructed FreezeUnfreeze object, an epoch of the     *)
(* first stage leaves the weights of every layer with unfreeze[i] = FALSE  *)
(* unchanged; throughout the second stage all six layers are marked        *)
(* trainable and the compiled model trains all of them.                    *)
C4_FrozenKept ==
    ( /\ cls = "FreezeUnfreeze" /\ ncalls = 1
      /\ pc = "fit" /\ stage = "freeze" /\ pc' = "fit" /\ stage' = "freeze" )
      => \A i \in Layers :
           ~unfreeze[i] => LayerWeights(m'.layers[i]) = LayerWeights(m.layers[i])

C4_AllTrainableInSecondStage ==
    (cls = "FreezeUnfreeze" /\ ncalls = 1 /\ pc = "fit" /\ stage = "unfreeze")
      => \A i \in Layers : m.layers[i].trainable /\ m.compiled.trainable[i]

C4_FreezeThenUnfreeze ==
    /\ [][C4_FrozenKept]_vars
    /\ []C4_AllTrainableInSecondStage

(* C4 witness: in the second stage of the first call, a layer that was     *)
(* frozen (and kept its weights through the first stage, as the first      *)
(* stage's checkpoint shows) has been updated, while in the first stage    *)
(* only layers with unfreeze[i] = TRUE had moved.                          *)
C4_Witness ==
    /\ cls = "FreezeUnfreeze" /\ ncalls = 1
    /\ ~pre_trained_weights
    /\ method = "FreezeUnfreeze.train"
    /\ pc = "fit" /\ stage = "unfreeze" /\ Len(hist) >= 1
    /\ \E i \in Layers :
         /\ ~unfreeze[i]
         /\ LayerWeights(m.layers[i])
              # LayerWeights(files[FUBeforeCheckpoint(pre_trained_weights)].layers[i])
    /\ \E i \in Layers :
         /\ unfreeze[i]
         /\ LayerWeights(files[FUBeforeCheckpoint(pre_trained_weights)].layers[i])
              # << FreshKernel(1, i, seed), 0 >>

(* C5: in the first stage of every call on a FreezeUnfreeze object, layer  *)
(* i is trainable if and only if unfreeze[i] is TRUE.                      *)
C5_EveryCallFreezesFirst ==
    (cls = "FreezeUnfreeze" /\ pc = "fit" /\ stage = "freeze")
      => \A i \in Layers :
           /\ m.layers[i].trainable = unfreeze[i]
           /\ m.compiled.trainable[i] = unfreeze[i]

(* C6: until training starts, a model built with pre_trained_weights has   *)
(* in W1, W2, bottleneck, W4 and W5 the weights of the same-named layers   *)
(* of the classification checkpoint and in W6_regr its fresh               *)
(* initialisation (the checkpoint has W6_class and no W6_regr); a model    *)
(* built without has its fresh initialisation in every layer.              *)
BeforeTraining ==
    \/ ncalls = 0
    \/ (ncalls = 1 /\ pc = "fit" /\ stage \in {"initial", "freeze"} /\ Len(hist) = 0)

FreshWeights(i) ==
    << [r \in 1..(IF i = 1 THEN input_dim ELSE 1) |->
          ((r * (seed + 2) + i + seed) % 5) - 2 + 5 * seed], 0 >>

C6_TransferByName ==
    BeforeTraining =>
        IF pre_trained_weights
          THEN /\ << m.layers[1].name, m.layers[2].name, m.layers[3].name,
                     m.layers[4].name, m.layers[5].name, m.layers[6].name >>
                    = << "W1", "W2", "bottleneck", "W4", "W5", "W6_regr" >>
               /\ \A i \in 1..5 :
                    /\ files[ClassificationFile].layers[i].name = m.layers[i].name
                    /\ LayerWeights(m.layers[i])
                         = LayerWeights(files[ClassificationFile].layers[i])
               /\ files[ClassificationFile].layers[6].name = "W6_class"
               /\ LayerWeights(m.layers[6]) = FreshWeights(6)
          ELSE \A i \in Layers : LayerWeights(m.layers[i]) = FreshWeights(i)

(* C6 witness: training is about to start on a model whose encoder and     *)
(* decoder came from the checkpoint and differ from the fresh values,      *)
(* while the checkpoint's output layer differs from the model's.           *)
C6_Witness ==
    /\ ncalls = 1 /\ pc = "fit" /\ Len(hist) = 0
    /\ pre_trained_weights
    /\ \A i \in 1..5 : LayerWeights(m.layers[i]) # FreshWeights(i)
    /\ LayerWeights(m.layers[6]) # LayerWeights(files[ClassificationFile].layers[6])

(* C7: train_full_dataset returns the array of the training R^2 values of  *)
(* all epochs of all stages that ran, with and without pruning.            *)
C7_ReturnsTrainingHistory ==
    (pc = "done" /\ method = "FreezeUnfreeze.train_full_dataset")
      => /\ ret = Array(train_loss)
         /\ Len(ret.value) = SumSeq(ran)

StageOrder == << "freeze", "unfreeze", "prune" >>

RECURSIVE StagesOf(_, _)
StagesOf(counts, k) ==
    IF k > Len(counts) THEN << >>
    ELSE [e \in 1..counts[k] |-> StageOrder[k]] \o StagesOf(counts, k + 1)

C10_FullDatasetIterations ==
    (pc = "done" /\ method = "FreezeUnfreeze.train_full_dataset")
      => /\ ran = IF args.prune
                    THEN << args.epochs, args.epochs, 2 * args.epochs >>
                    ELSE << args.epochs, args.epochs >>
         /\ \A k \in 1..Len(stopped) : ~stopped[k]
         /\ [e \in 1..Len(train_loss) |-> train_loss[e].stage] = StagesOf(ran, 1)
         /\ SumSeq(ran) = (IF args.prune THEN 4 * args.epochs ELSE 2 * args.epochs)

(* C10 witness: a pruning call with epochs=2 has returned after 2, 2 and 4 *)
(* epochs.                                                                 *)
C10_Witness ==
    /\ pc = "done" /\ method = "FreezeUnfreeze.train_full_dataset"
    /\ args.prune /\ args.epochs = 2
    /\ ran = << 2, 2, 4 >>
    /\ Len(train_loss) = 8

(* C11: a StraightRegression.train or FreezeUnfreeze.train call that       *)
(* returns hands back a tuple of 4 (StraightRegression) or 6               *)
(* (FreezeUnfreeze) elements without pruning and of 6 or 8 with pruning;   *)
(* its last two elements are the training and the validation R^2 history,  *)
(* of equal length, that length being the number of epochs run over all    *)
(* stages of the call, and each lists epochs 1..ran[k] of stage k, stage   *)
(* after stage in the order the stages ran.                                *)
MethodStages(meth, prune) ==
    IF meth = "StraightRegression.train"
      THEN IF prune THEN << "initial", "prune" >> ELSE << "initial" >>
      ELSE IF prune THEN << "freeze", "unfreeze", "prune" >>
                    ELSE << "freeze", "unfreeze" >>

RECURSIVE EpochsInOrder(_, _, _, _)
EpochsInOrder(key, stages, counts, k) ==
    IF k > Len(counts) THEN << >>
    ELSE [ e \in 1..counts[k] |-> [ key |-> key, stage |-> stages[k], epoch |-> e ] ]
           \o EpochsInOrder(key, stages, counts, k + 1)

TupleLength(meth, prune) ==
    (IF meth = "StraightRegression.train" THEN 4 ELSE 6) + (IF prune THEN 2 ELSE 0)

C11_ReturnsHistoriesOfAllEpochs ==
    (pc = "done" /\ Validated(method))
      => LET n == TupleLength(method, args.prune)
             stages == MethodStages(method, args.prune)
         IN  /\ ret.kind = "tuple"
             /\ Len(ret.value) = n
             /\ Len(ran) = Len(stages)
             /\ Len(ret.value[n - 1]) = Len(ret.value[n])
             /\ Len(ret.value[n]) = SumSeq(ran)
             /\ ret.value[n - 1] = EpochsInOrder("r2_score", stages, ran, 1)
             /\ ret.value[n] = EpochsInOrder("val_r2_score", stages, ran, 1)

(* C11 witness: a pruning FreezeUnfreeze.train call has returned 8         *)
(* elements; early stopping cut its last stage short, its stages ran       *)
(* different numbers of epochs, and the histories have one entry per epoch *)
(* run, the last one being the last epoch of the pruning stage.            *)
C11_Witness ==
    /\ pc = "done" /\ method = "FreezeUnfreeze.train"
    /\ args.prune
    /\ Len(ret.value) = 8
    /\ ran[3] > ran[1] /\ ran[3] < 2 * args.epochs
    /\ Len(ret.value[7]) = ran[1] + ran[2] + ran[3]
    /\ ret.value[8][Len(ret.value[8])] =
         [ key |-> "val_r2_score", stage |-> "prune", epoch |-> ran[3] ]

(* The configuration of the layer stack of a model: input width, shape of  *)
(* the first kernel, and each layer's name, width, activation and kernel   *)
(* regulariser.                                                            *)
Architecture(model) ==
    [ input_dim |-> model.input_dim,
      rows |-> Len(model.layers[1].kernel),
      layers |-> [ i \in Layers |->
                     [ name |-> model.layers[i].name,
                       units |-> model.layers[i].units,
                       activation |-> model.layers[i].activation,
                       kernel_regularizer |-> model.layers[i].kernel_regularizer ] ] ]

(* A six-layer dense stack of widths 512, 128, 2, 128, 512, out, whose     *)
(* third layer is the linear bottleneck of width 2.                        *)
BottleneckStack(model, out, out_act, out_name) ==
    /\ Len(model.layers) = 6
    /\ [ i \in Layers |-> model.layers[i].units ] = << 512, 128, 2, 128, 512, out >>
    /\ [ i \in Layers |-> model.layers[i].activation ]
         = << "act", "act", "linear", "act", "act", out_act >>
    /\ [ i \in 2..6 |-> model.layers[i].name ]
         = [ i \in 2..6 |-> << "", "W2", "bottleneck", "W4", "W5", out_name >>[i] ]
    /\ model.layers[3].name = "bottleneck"
    /\ model.layers[3].units = 2
    /\ model.layers[3].activation = "linear"
    /\ Len(model.layers[1].kernel) = model.input_dim
    /\ \A i \in 2..6 : Len(model.layers[i].kernel) = 1

FullWidth(model) == model.input_dim = input_dim /\ model.layers[1].name = "W1"

Pruned(model) == model.input_dim = N_KEEP /\ model.layers[1].name = "W1_25"

StackEverywhere ==
    /\ BottleneckStack(m, OUTPUT_DIM, "linear", "W6_regr")
    /\ FullWidth(m) \/ Pruned(m)
    /\ \A f \in FileNames \ {ClassificationFile} :
         files[f] # NoFile
           => /\ BottleneckStack(files[f], OUTPUT_DIM, "linear", "W6_regr")
              /\ FullWidth(files[f]) \/ Pruned(files[f])
    /\ files[ClassificationFile] # NoFile
         => /\ BottleneckStack(files[ClassificationFile], N_CLASSES, "softmax", "W6_class")
            /\ FullWidth(files[ClassificationFile])

(* C12 as stated: self.m and every saved model is the six-layer stack with *)
(* the linear width-2 bottleneck as third layer, and a step that changes   *)
(* the configuration of self.m's stack changes its input width to 25 and   *)
(* its first layer's name to W1_25 and nothing else.                       *)
C12_OnlyWidthAndName ==
    Architecture(m') # Architecture(m)
      => Architecture(m') = [ Architecture(m) EXCEPT !.input_dim = N_KEEP,
                                                     !.rows = N_KEEP,
                                                     !.layers[1].name = "W1_25" ]

C12_PruningChangesOnlyWidthAndName ==
    /\ []StackEverywhere
    /\ [][C12_OnlyWidthAndName]_vars

(* C12 amended: the same stack invariant; a step that changes the          *)
(* configuration of self.m's stack is the pruning step of a call with      *)
(* prune=True, and it changes the input width to 25, the first layer's     *)
(* name to W1_25 and the first layer's kernel regulariser from             *)
(* ElasticNet(l1=self.l1) to ElasticNet(l1=0), and nothing else; a stack   *)
(* that is still full-width has the constructor's regulariser.             *)
C12_WidthNameAndLasso ==
    Architecture(m') # Architecture(m)
      => /\ args.prune
         /\ ind_genes' # << >>
         /\ Architecture(m') =
              [ Architecture(m) EXCEPT !.input_dim = N_KEEP,
                                       !.rows = N_KEEP,
                                       !.layers[1].name = "W1_25",
                                       !.layers[1].kernel_regularizer = ElasticNet(0) ]

C12_FirstLayerRegularizer ==
    /\ m.layers[1].name = "W1" => m.layers[1].kernel_regularizer = ElasticNet(l1)
    /\ m.layers[1].name = "W1_25" => m.layers[1].kernel_regularizer = ElasticNet(0)

C12_ArchitectureInvariant ==
    /\ [](StackEverywhere /\ C12_FirstLayerRegularizer)
    /\ [][C12_WidthNameAndLasso]_vars

(* C12 witness: an object built with more than 25 inputs and a non-zero    *)
(* lasso penalty was pruned by a first call, and a second call, which      *)
(* pruned the 25-input model again, has returned.                          *)
C12_Witness ==
    /\ ncalls = 2 /\ pc = "done"
    /\ input_dim > N_KEEP /\ l1 # 0
    /\ x_dim = N_KEEP
    /\ args.prune /\ ind_genes # << >>
    /\ Pruned(m) /\ ~FullWidth(m)
    /\ m.layers[1].kernel_regularizer = ElasticNet(0)
    /\ BottleneckStack(m, OUTPUT_DIM, "linear", "W6_regr")

(* C13: the fit() of the pruned model is handed x_train[:, ind_genes] and  *)
(* (when it validates) x_test[:, ind_genes], the R^2 values returned for   *)
(* the pruning stage are computed on the same two slices, and ind_genes is *)
(* the order of the transplanted kernel rows; and before the first epoch   *)
(* of that fit() the pruned model predicts on the sliced inputs what the   *)
(* trained full-width model predicts on the inputs whose non-selected      *)
(* columns are set to zero.                                                *)
Masked(x, ind) ==
    [ i \in 1..Len(x) |-> IF \E j \in 1..Len(ind) : ind[j] = i - 1 THEN x[i] ELSE 0 ]

Columns(x, ind) == [ j \in 1..Len(ind) |-> x[ind[j] + 1] ]

C13_SameIndexVectorEverywhere ==
    /\ (pc = "fit" /\ stage = "prune")
         => /\ fit_x.x_train = Columns(XTrain(x_dim), ind_genes)
            /\ fit_x.x_test = IF validated THEN Columns(XTest(x_dim), ind_genes)
                                           ELSE << >>
            /\ Len(hist) = 0
                 => LET trained == files[LastFile(method)]
                    IN  /\ m.layers[1].kernel = Columns(trained.layers[1].kernel, ind_genes)
                        /\ Predict(m, fit_x.x_train)
                             = Predict(trained, Masked(XTrain(x_dim), ind_genes))
                        /\ validated
                             => Predict(m, fit_x.x_test)
                                  = Predict(trained, Masked(XTest(x_dim), ind_genes))
    /\ (pc = "done" /\ Validated(method) /\ args.prune)
         => LET k == Len(MethodStages(method, TRUE))
                saved == files[StageCheckpoint(method, k)]
            IN  /\ ret.value[2 * k - 1]
                     = R2Of(saved, Columns(XTrain(x_dim), ind_genes), "y_train")
                /\ ret.value[2 * k]
                     = R2Of(saved, Columns(XTest(x_dim), ind_genes), "y_test")

(* C13 witness: the pruned model of a validated call is about to be        *)
(* retrained; ind_genes is not in ascending order, the slice is not the    *)
(* first 25 columns, and zeroing the non-selected columns matters to the   *)
(* full-width model, which predicts on the masked inputs what the pruned   *)
(* model predicts on the slice.                                            *)
C13_Witness ==
    /\ pc = "fit" /\ stage = "prune" /\ Len(hist) = 0
    /\ validated
    /\ input_dim > N_KEEP
    /\ \E j \in 1..(N_KEEP - 1) : ind_genes[j] > ind_genes[j + 1]
    /\ fit_x.x_train # SubSeq(XTrain(x_dim), 1, N_KEEP)
    /\ Predict(files[LastFile(method)], XTrain(x_dim))
         # Predict(files[LastFile(method)], Masked(XTrain(x_dim), ind_genes))
    /\ Predict(m, fit_x.x_train)
         = Predict(files[LastFile(method)], Masked(XTrain(x_dim), ind_genes))

=============================================================================
